---- MODULE Spec2Model ----
(***************************************************************************)
(* Modified-Leitner flashcard scheduler (PS1/src/algorithm.ts).            *)
(*                                                                         *)
(* JavaScript Set objects live in a heap (address -> set of cards); a      *)
(* BucketMap is a Map in insertion order (sequence of key/ref entries);    *)
(* the Array-of-Set encoding is a sequence of refs, element i+1 holding    *)
(* bucket i.  Aliasing between maps and arrays is therefore visible.       *)
(***************************************************************************)
EXTENDS Integers, Sequences, FiniteSets, TLC

VARIABLES heap, retained, dense, day, result, last, selected, front

vars == <<heap, retained, dense, day, result, last, selected, front>>

\* ---------------------------------------------------------------- bounds
Cards == {"X", "Y", "R"}
MapCards == {"X", "Y"}
MaxMaps == 3
MaxEmptyKeys == 0
MaxLen == 7
MaxDay == 33
MaxPromptLen == 7

\* ------------------------------------------------------------- constants
retiredBucket == 5
Undefined == -1
Difficulties == {"Wrong", "Hard", "Easy"}
NoOp == [op |-> "none", arg |-> 0, card |-> "-", difficulty |-> "-", day |-> -1]

\* --------------------------------------------------------------- helpers
Max(S) == CHOOSE x \in S : \A y \in S : y <= x
Min(S) == CHOOSE x \in S : \A y \in S : x <= y

RECURSIVE Pow2(_)
Pow2(n) == IF n = 0 THEN 1 ELSE 2 * Pow2(n - 1)

\* n fresh Set objects: the n smallest addresses not in use
RECURSIVE Alloc(_, _)
Alloc(used, n) ==
  IF n = 0 THEN <<>>
  ELSE LET a == Min((1..(Cardinality(used) + 1)) \ used)
       IN <<a>> \o Alloc(used \cup {a}, n - 1)

\* ------------------------------------------------------- Map<number,Set>
MapKeys(m) == {m[i].key : i \in 1..Len(m)}
MapHas(m, k) == k \in MapKeys(m)
MapGet(m, k) == m[CHOOSE i \in 1..Len(m) : m[i].key = k].ref
MapRefs(m) == {m[i].ref : i \in 1..Len(m)}

\* the cards a map assigns to bucket k (empty when there is no entry)
CardsIn(h, m, k) == IF MapHas(m, k) THEN h[MapGet(m, k)] ELSE {}
\* the buckets whose set holds the card
BucketsOf(h, m, card) == {k \in MapKeys(m) : card \in h[MapGet(m, k)]}
\* content of a map: key -> set of cards
Content(h, m) == [k \in MapKeys(m) |-> h[MapGet(m, k)]]

\* ------------------------------------------------------------- update()
\* a scan that reports bucket 0 when the card is in no set
FindCurrentBucketOrZero(h, m, card) ==
  LET hits == {i \in 1..Len(m) : card \in h[m[i].ref]}
  IN IF hits = {} THEN 0 ELSE m[Max(hits)].key

\* newBuckets.forEach((set, bucket) => { if (set.has(card)) currentBucket = bucket })
FindCurrentBucket(h, m, card) ==
  LET hits == {i \in 1..Len(m) : card \in h[m[i].ref]}
  IN IF hits = {} THEN Undefined ELSE m[Max(hits)].key

\* Easy without Math.min(.., 5)
NewBucketEasyUnclamped(currentBucket, difficulty) ==
  IF difficulty = "Easy" THEN currentBucket + 1
  ELSE IF difficulty = "Hard" THEN
    (IF currentBucket - 1 > 0 THEN currentBucket - 1 ELSE 0)
  ELSE 0

\* Hard without Math.max(.., 0)
NewBucketHardUnclamped(currentBucket, difficulty) ==
  IF difficulty = "Easy" THEN
    (IF currentBucket + 1 < 5 THEN currentBucket + 1 ELSE 5)
  ELSE IF difficulty = "Hard" THEN currentBucket - 1
  ELSE 0

\* Easy clamped one bucket too high
NewBucketEasyCapSix(currentBucket, difficulty) ==
  IF difficulty = "Easy" THEN
    (IF currentBucket + 1 < 6 THEN currentBucket + 1 ELSE 6)
  ELSE IF difficulty = "Hard" THEN
    (IF currentBucket - 1 > 0 THEN currentBucket - 1 ELSE 0)
  ELSE 0

\* Hard moving the card up instead of down
NewBucketHardUp(currentBucket, difficulty) ==
  IF difficulty = "Easy" THEN
    (IF currentBucket + 1 < 5 THEN currentBucket + 1 ELSE 5)
  ELSE IF difficulty = "Hard" THEN
    (IF currentBucket + 1 < 5 THEN currentBucket + 1 ELSE 5)
  ELSE 0

NewBucket(currentBucket, difficulty) ==
  IF difficulty = "Easy" THEN
    (IF currentBucket + 1 < 5 THEN currentBucket + 1 ELSE 5)
  ELSE IF difficulty = "Hard" THEN
    (IF currentBucket - 1 > 0 THEN currentBucket - 1 ELSE 0)
  ELSE 0

\* the card is left in its old set
DeleteCardSkipped(h, m, currentBucket, card) == h

\* the old set is cleared instead of losing one card
DeleteCardClears(h, m, currentBucket, card) ==
  IF MapHas(m, currentBucket)
  THEN [h EXCEPT ![MapGet(m, currentBucket)] = {}]
  ELSE h

\* newBuckets.get(currentBucket)?.delete(card)
DeleteCard(h, m, currentBucket, card) ==
  IF MapHas(m, currentBucket)
  THEN [h EXCEPT ![MapGet(m, currentBucket)] = @ \ {card}]
  ELSE h

\* the card is not inserted into the new set
AddCardSkipped(h, m, newBucket, card) == h

\* newBuckets.get(newBucket)?.add(card)
AddCard(h, m, newBucket, card) ==
  IF MapHas(m, newBucket)
  THEN [h EXCEPT ![MapGet(m, newBucket)] = @ \cup {card}]
  ELSE h

update(h, buckets, card, difficulty) ==
  LET newBuckets == buckets        \* new Map(buckets): same Set objects
      currentBucket == FindCurrentBucket(h, newBuckets, card)
  IN IF currentBucket = Undefined
     THEN [heap |-> h, map |-> newBuckets]
     ELSE
       LET newBucket == NewBucket(currentBucket, difficulty)
           h1 == DeleteCard(h, newBuckets, currentBucket, card)
           fresh == Alloc(DOMAIN h1, 1)[1]
           has == MapHas(newBuckets, newBucket)
           m2 == IF has THEN newBuckets
                 ELSE Append(newBuckets, [key |-> newBucket, ref |-> fresh])
           h2 == IF has THEN h1 ELSE h1 @@ (fresh :> {})
           h3 == AddCard(h2, m2, newBucket, card)
       IN [heap |-> h3, map |-> m2]

\* ------------------------------------------------------- toBucketSets()
\* result[bucket] = cards: the array element is the map's own Set
CopySetAliased(h, m, bucket, freshAddr) ==
  [ref |-> MapGet(m, bucket), cards |-> h[MapGet(m, bucket)]]

\* result[bucket] = new Set(cards)
CopySet(h, m, bucket, freshAddr) == [ref |-> freshAddr, cards |-> h[MapGet(m, bucket)]]

\* length taken from the number of entries instead of the highest key
ArrayLengthFromSize(buckets) == Len(buckets)

\* Array.from({length: maxBucket + 1}, ...) with maxBucket = Math.max(...keys)
ArrayLength(buckets) == Max(MapKeys(buckets)) + 1

toBucketSets(h, buckets) ==
  IF Len(buckets) = 0 THEN [heap |-> h, array |-> <<>>]
  ELSE
    LET length == ArrayLength(buckets)
        addrs == Alloc(DOMAIN h, length)
        elem(i) == IF MapHas(buckets, i - 1)
                   THEN CopySet(h, buckets, i - 1, addrs[i])
                   ELSE [ref |-> addrs[i], cards |-> {}]
        arr == [i \in 1..length |-> elem(i).ref]
        fresh == {addrs[i] : i \in 1..length}
        h2 == [a \in DOMAIN h \cup fresh |->
                 IF a \in fresh
                 THEN elem(CHOOSE i \in 1..length : addrs[i] = a).cards
                 ELSE h[a]]
    IN [heap |-> h2, array |-> arr]

\* content of an Array-of-Set: element b+1 is bucket b
DenseContent(h, arr) == [i \in 1..Len(arr) |-> h[arr[i]]]

\* ------------------------------------------------------ getBucketRange()
PosInfinity == 999999
NegInfinity == -999999
MathMin(a, b) == IF a < b THEN a ELSE b
MathMax(a, b) == IF a > b THEN a ELSE b

\* a test that also counts empty sets
NonEmptyAlways(set) == TRUE

\* set.size > 0
NonEmpty(set) == Cardinality(set) > 0

\* buckets.forEach((set, index) => ...) from element i on, index = i - 1
RECURSIVE RangeScan(_, _, _, _)
RangeScan(buckets, i, min, max) ==
  IF i > Len(buckets) THEN [min |-> min, max |-> max]
  ELSE IF NonEmpty(buckets[i])
       THEN RangeScan(buckets, i + 1, MathMin(min, i - 1), MathMax(max, i - 1))
       ELSE RangeScan(buckets, i + 1, min, max)

\* the returned value: {minBucket, maxBucket}, or undefined (defined = FALSE)
getBucketRange(buckets) ==
  LET r == RangeScan(buckets, 1, PosInfinity, NegInfinity)
  IN IF r.min # PosInfinity
     THEN [defined |-> TRUE, minBucket |-> r.min, maxBucket |-> r.max]
     ELSE [defined |-> FALSE, minBucket |-> Undefined, maxBucket |-> Undefined]

\* ----------------------------------------------------- computeProgress()
\* weight of 25 per bucket
WeightQuarter(bucket) == bucket * 25

\* bucket * 20: 0 -> 0%, 1 -> 20%, ...
Weight(bucket) == bucket * 20

\* Math.floor in place of Math.round
MathFloorDiv(weightedSum, totalCards) == weightedSum \div totalCards

\* Math.round(weightedSum / totalCards): halves round up
MathRoundDiv(weightedSum, totalCards) ==
  (2 * weightedSum + totalCards) \div (2 * totalCards)

\* buckets.forEach((set, bucket) => ...) over entries[1..n], each entry a
\* [bucket, count] pair: totalCards += count; weightedSum += count * weight
RECURSIVE ProgressScan(_, _)
ProgressScan(entries, n) ==
  IF n = 0 THEN [totalCards |-> 0, weightedSum |-> 0]
  ELSE LET acc == ProgressScan(entries, n - 1)
           count == entries[n].count
       IN [totalCards |-> acc.totalCards + count,
           weightedSum |-> acc.weightedSum + count * Weight(entries[n].bucket)]

computeProgress(entries, history) ==
  LET acc == ProgressScan(entries, Len(entries))
  IN IF acc.totalCards > 0
     THEN MathRoundDiv(acc.weightedSum, acc.totalCards)
     ELSE 0

\* what forEach visits on a Map (key, set) and on an Array (index, set)
MapEntries(h, m) ==
  [i \in 1..Len(m) |-> [bucket |-> m[i].key, count |-> Cardinality(h[m[i].ref])]]
ArrayEntries(h, arr) ==
  [i \in 1..Len(arr) |-> [bucket |-> i - 1, count |-> Cardinality(h[arr[i]])]]

\* ------------------------------------------------------------- getHint()
\* strings are sequences of one-character strings
minLength == 3
NoHintAvailable == <<"N", "o", " ", "h", "i", "n", "t", " ", "a", "v", "a", "i", "l", "a", "b", "l", "e">>
Whitespace == {" ", "\t", "\n"}

\* !card.front.trim()
IsBlank(str) == \A i \in 1..Len(str) : str[i] \in Whitespace

\* str.split(/\s+/) from position i on, word being the characters read
\* since the last separator: a leading or trailing run of whitespace
\* yields an empty first or last word
RECURSIVE SplitFrom(_, _, _)
SplitFrom(str, i, word) ==
  IF i > Len(str) THEN <<word>>
  ELSE IF str[i] \in Whitespace
       THEN IF i > 1 /\ str[i - 1] \in Whitespace
            THEN SplitFrom(str, i + 1, word)
            ELSE <<word>> \o SplitFrom(str, i + 1, <<>>)
       ELSE SplitFrom(str, i + 1, Append(word, str[i]))

Split(str) == SplitFrom(str, 1, <<>>)

\* a loop that stops at minLength * 3
RECURSIVE AccumulateLoose(_, _, _)
AccumulateLoose(words, i, hint) ==
  IF i > Len(words) THEN hint
  ELSE IF Len(hint) + Len(words[i]) > minLength * 3 THEN hint
  ELSE AccumulateLoose(words, i + 1,
                       hint \o (IF hint # <<>> THEN <<" ">> ELSE <<>>) \o words[i])

\* for (const word of words) { if (hint.length + word.length > minLength * 2)
\* break; hint += (hint ? " " : "") + word; }
RECURSIVE Accumulate(_, _, _)
Accumulate(words, i, hint) ==
  IF i > Len(words) THEN hint
  ELSE IF Len(hint) + Len(words[i]) > minLength * 2 THEN hint
  ELSE Accumulate(words, i + 1,
                  hint \o (IF hint # <<>> THEN <<" ">> ELSE <<>>) \o words[i])

\* card.front.slice(0, n)
SliceStr(str, n) == SubSeq(str, 1, IF Len(str) < n THEN Len(str) ELSE n)

getHint(cardFront) ==
  IF IsBlank(cardFront) THEN NoHintAvailable
  ELSE LET hint == Accumulate(Split(cardFront), 1, <<>>)
       IN IF Len(hint) >= minLength THEN hint ELSE SliceStr(cardFront, minLength)

\* ------------------------------------------------------------ practice()
\* slice that keeps the retired bucket and everything above it
SliceKeepsRetired(arr, n) == arr

\* buckets.slice(0, retiredBucket)
Slice(arr, n) == SubSeq(arr, 1, IF Len(arr) < n THEN Len(arr) ELSE n)

\* interval 2 ** (bucket + 1)
IsDueDoubled(d, bucket) == d % Pow2(bucket + 1) = 0

IsDue(d, bucket) == d % Pow2(bucket) = 0

practice(buckets, d) ==
  LET sl == Slice(buckets, retiredBucket)
  IN UNION {IF IsDue(d, i - 1) THEN sl[i] ELSE {} : i \in 1..Len(sl)}

\* ------------------------------------------------------------ the states
\* a sparse assignment built by the caller: each card in at most one
\* bucket (p[c] = Undefined: in none), keys = occupied buckets plus E
InitMap(p, E) ==
  LET keys == ({p[c] : c \in MapCards} \ {Undefined}) \cup E
      n == Cardinality(keys)
      keyAt(i) == CHOOSE k \in keys : Cardinality({j \in keys : j < k}) = i - 1
  IN [heap |-> [a \in 1..n |-> {c \in MapCards : p[c] = keyAt(a)}],
      map |-> [i \in 1..n |-> [key |-> keyAt(i), ref |-> i]]]

Init ==
  \E p \in [MapCards -> (0..5) \cup {Undefined}] :
    \E E \in {S \in SUBSET (0..5) : Cardinality(S) <= MaxEmptyKeys} :
      /\ heap = InitMap(p, E).heap
      /\ retained = <<InitMap(p, E).map>>
      /\ dense = <<>>
      /\ day = 0
      /\ result = {}
      /\ last = NoOp
      /\ selected = <<>>
      /\ front = <<>>

\* update(retained[i], card, difficulty); the caller keeps input and result
Update(i, card, difficulty) ==
  LET r == update(heap, retained[i], card, difficulty)
  IN /\ Len(retained) < MaxMaps
     /\ heap' = r.heap
     /\ retained' = Append(retained, r.map)
     /\ last' = [NoOp EXCEPT !.op = "update", !.arg = i, !.card = card,
                             !.difficulty = difficulty]
     /\ UNCHANGED <<dense, day, result, selected, front>>

UpdateLatest ==
  \E card \in MapCards, difficulty \in Difficulties :
    Update(Len(retained), card, difficulty)

UpdateRetained ==
  \E i \in 1..(Len(retained) - 1), card \in MapCards, difficulty \in Difficulties :
    Update(i, card, difficulty)

\* dense = toBucketSets(retained[i]); the previous array is dropped
ToBucketSets ==
  \E i \in 1..Len(retained) :
    LET live == UNION {MapRefs(retained[j]) : j \in 1..Len(retained)}
        h0 == [a \in live |-> heap[a]]
        r == toBucketSets(h0, retained[i])
    IN /\ heap' = r.heap
       /\ dense' = r.array
       /\ last' = [NoOp EXCEPT !.op = "toBucketSets", !.arg = i]
       /\ UNCHANGED <<retained, day, result, selected, front>>

\* update calls on any assignment the caller retained
Next == UpdateLatest \/ UpdateRetained

Spec == Init /\ [][Next]_vars

\* the session in which each update is applied to the previous result and
\* the driver converts retained assignments for display
NextChain == UpdateLatest \/ ToBucketSets

SpecChain == Init /\ [][NextChain]_vars

\* ------------------------------------------------- the due-set selector
\* an Array-of-Set handed to practice(): length 0..MaxLen, each card in at
\* most one bucket (q[c] = Undefined: in none)
InitPractice ==
  \E n \in 0..MaxLen :
    \E q \in [Cards -> (0..(n - 1)) \cup {Undefined}] :
      /\ heap = [a \in 1..n |-> {c \in Cards : q[c] = a - 1}]
      /\ dense = [i \in 1..n |-> i]
      /\ retained = <<>>
      /\ day = 0
      /\ result = {}
      /\ last = NoOp
      /\ selected = <<>>
      /\ front = <<>>

\* the driver calls practice(dense, day) once per day, day = 0, 1, 2, ...;
\* selected[d + 1] is the set practice returned on day d
PracticeDay ==
  /\ day <= MaxDay
  /\ result' = practice(DenseContent(heap, dense), day)
  /\ selected' = Append(selected, practice(DenseContent(heap, dense), day))
  /\ last' = [NoOp EXCEPT !.op = "practice", !.day = day]
  /\ day' = day + 1
  /\ UNCHANGED <<heap, retained, dense, front>>

NextPractice == PracticeDay

SpecPractice == InitPractice /\ [][NextPractice]_vars

\* ------------------------------------------------ the completion metric
\* the answer histories handed to computeProgress
Histories == {<<>>, <<"Easy">>, <<"Wrong", "Hard">>}

\* a sparse assignment of all of Cards, each in at most one bucket; a map
\* without cards may hold entries with empty sets
InitMapOf(p, E) ==
  LET keys == ({p[c] : c \in Cards} \ {Undefined}) \cup E
      n == Cardinality(keys)
      keyAt(i) == CHOOSE k \in keys : Cardinality({j \in keys : j < k}) = i - 1
  IN [heap |-> [a \in 1..n |-> {c \in Cards : p[c] = keyAt(a)}],
      map |-> [i \in 1..n |-> [key |-> keyAt(i), ref |-> i]]]

InitProgress ==
  \E p \in [Cards -> (0..5) \cup {Undefined}] :
    \E E \in (IF \A c \in Cards : p[c] = Undefined THEN SUBSET (0..5) ELSE {{}}) :
      /\ heap = InitMapOf(p, E).heap
      /\ retained = <<InitMapOf(p, E).map>>
      /\ dense = <<>>
      /\ day = 0
      /\ result = {}
      /\ last = NoOp
      /\ selected = <<>>
      /\ front = <<>>

\* one graded trial on the current assignment
Grade ==
  \E card \in Cards, difficulty \in Difficulties :
    Update(Len(retained), card, difficulty)

\* computeProgress on the current assignment and on its dense encoding
ComputeProgress ==
  \E history \in Histories :
    LET m == retained[Len(retained)]
        r == toBucketSets(heap, m)
    IN /\ result' = [sparse |-> computeProgress(MapEntries(heap, m), history),
                     dense |-> computeProgress(ArrayEntries(r.heap, r.array), history)]
       /\ last' = [NoOp EXCEPT !.op = "computeProgress", !.arg = Len(retained)]
       /\ UNCHANGED <<heap, retained, dense, day, selected, front>>

NextProgress == Grade \/ ComputeProgress

SpecProgress == InitProgress /\ [][NextProgress]_vars

\* ------------------------------------------------------ the hint generator
\* the prompts of the repository's tests
CapitalOfFrance == <<"C", "a", "p", "i", "t", "a", "l", " ", "o", "f", " ", "F", "r", "a", "n", "c", "e", "?">>
NameTheElements == <<"N", "A", "M", "E", " ", "t", "h", "e", " ", "e", "l", "e", "m", "e", "n", "t", "s">>
WhatsYourName == <<"W", "h", "a", "t", "'", "s", " ", "y", "o", "u", "r", " ", "n", "a", "m", "e", "?">>
Hi == <<"H", "i">>
TestPrompts == {CapitalOfFrance, NameTheElements, WhatsYourName, Hi}

\* card.front: a test prompt, or any string of letters and spaces of
\* length 0..MaxPromptLen
InitHint ==
  /\ front \in TestPrompts \cup
               UNION {[1..n -> {"a", " "}] : n \in 0..MaxPromptLen}
  /\ heap = <<>>
  /\ retained = <<>>
  /\ dense = <<>>
  /\ day = 0
  /\ result = {}
  /\ last = NoOp
  /\ selected = <<>>

GetHint ==
  /\ result' = getHint(front)
  /\ last' = [NoOp EXCEPT !.op = "getHint"]
  /\ UNCHANGED <<heap, retained, dense, day, selected, front>>

NextHint == GetHint

SpecHint == InitHint /\ [][NextHint]_vars

\* --------------------------------------------------- the range inspector
\* getBucketRange(dense) on every Array-of-Set of InitPractice
GetBucketRange ==
  /\ result' = getBucketRange(DenseContent(heap, dense))
  /\ last' = [NoOp EXCEPT !.op = "getBucketRange"]
  /\ UNCHANGED <<heap, retained, dense, day, selected, front>>

NextRange == GetBucketRange

SpecRange == InitPractice /\ [][NextRange]_vars

\* =================================================================
\* Properties
\* =================================================================

StepIsUpdate == Len(retained') = Len(retained) + 1
StepInput == retained[last'.arg]
StepResult == retained'[Len(retained')]
Latest == retained[Len(retained)]

RECURSIVE SumSizes(_, _, _)
SumSizes(h, m, n) ==
  IF n = 0 THEN 0 ELSE Cardinality(h[m[n].ref]) + SumSizes(h, m, n - 1)
TotalCards(h, m) == SumSizes(h, m, Len(m))

ExpectedBucket(c, difficulty) ==
  CASE difficulty = "Easy" -> (IF c + 1 <= 5 THEN c + 1 ELSE 5)
    [] difficulty = "Hard" -> (IF c - 1 >= 0 THEN c - 1 ELSE 0)
    [] OTHER -> 0

\* C2: when the card is in exactly one bucket c (0 <= c <= 5) of the input,
\* the map returned by update holds it in exactly min(c+1,5) for Easy,
\* max(c-1,0) for Hard and 0 for Wrong (that key exists in the result even
\* if the input had no entry for it), and no longer in c when the target
\* differs from c.
C2_Transition ==
  [][StepIsUpdate =>
       \A c \in 0..5 :
         BucketsOf(heap, StepInput, last'.card) = {c} =>
           /\ MapHas(StepResult, ExpectedBucket(c, last'.difficulty))
           /\ BucketsOf(heap', StepResult, last'.card)
                = {ExpectedBucket(c, last'.difficulty)}]_vars

C2_Witness ==
  /\ last.op = "update"
  /\ last.difficulty = "Hard"
  /\ BucketsOf(heap, Latest, last.card) = {2}
  /\ ~MapHas(retained[last.arg], 2)
  /\ MapHas(retained[last.arg], 3)

\* C3: update is copy-on-write: every retained assignment keeps, across
\* each update call, exactly the keys and per-bucket card sets it had, and
\* the returned assignment shares no set with its input.
C3_CopyOnWrite ==
  [][StepIsUpdate =>
       /\ \A j \in 1..Len(retained) :
            Content(heap', retained'[j]) = Content(heap, retained[j])
       /\ MapRefs(StepResult) \cap MapRefs(StepInput) = {}]_vars

\* C4: starting from an assignment with every card in at most one bucket,
\* after any sequence of update calls (each on the previous result) every
\* card is in at most one bucket of every assignment produced.
C4_OneBucketPerCard ==
  \A j \in 1..Len(retained) : \A c \in Cards :
    Cardinality(BucketsOf(heap, retained[j], c)) <= 1

C4_Witness ==
  /\ last.op = "update"
  /\ Len(retained) = MaxMaps
  /\ BucketsOf(heap, Latest, "X") = {2}
  /\ BucketsOf(heap, Latest, "Y") = {0}
  /\ Len(Latest) > Len(retained[1])

\* C5: the total number of cards over all buckets of update's result
\* equals the total over its input, and stays constant over any sequence
\* of update calls (each on the previous result).
C5_Conservation ==
  [][/\ StepIsUpdate =>
          TotalCards(heap', StepResult) = TotalCards(heap, StepInput)
     /\ TotalCards(heap', retained'[Len(retained')]) = TotalCards(heap, Latest)]_vars

C5_Witness ==
  /\ last.op = "update"
  /\ Len(retained) = MaxMaps
  /\ TotalCards(heap, Latest) = 2
  /\ Len(Latest) = Len(retained[1]) + 2

\* C6: when the card is in no bucket's set, update returns an assignment
\* with the same keys and the same set content per key as the input, for
\* every difficulty; no new entry (in particular no bucket 0) is created.
C6_UnknownCardNoOp ==
  [][(StepIsUpdate /\ BucketsOf(heap, StepInput, last'.card) = {}) =>
       /\ MapKeys(StepResult) = MapKeys(StepInput)
       /\ Content(heap', StepResult) = Content(heap, StepInput)]_vars

C6_Witness ==
  /\ last.op = "update"
  /\ \A j \in 1..Len(retained) : BucketsOf(heap, retained[j], last.card) = {}
  /\ Len(Latest) > 0
  /\ ~MapHas(Latest, 0)
  /\ TotalCards(heap, Latest) = 1

\* C7: an Easy update of a card that is in bucket 5 leaves it in bucket 5
\* and in no other bucket, and a Hard update of a card in bucket 0 leaves it
\* in bucket 0 and in no other bucket; so n such updates in a row do.
C7_Clamping ==
  [][StepIsUpdate =>
       /\ (last'.difficulty = "Easy"
              /\ BucketsOf(heap, StepInput, last'.card) = {5})
            => BucketsOf(heap', StepResult, last'.card) = {5}
       /\ (last'.difficulty = "Hard"
              /\ BucketsOf(heap, StepInput, last'.card) = {0})
            => BucketsOf(heap', StepResult, last'.card) = {0}]_vars

C7_Witness ==
  /\ last.op = "update"
  /\ last.difficulty = "Hard"
  /\ Len(retained) = MaxMaps
  /\ last.arg = MaxMaps - 1
  /\ \A j \in 1..Len(retained) : BucketsOf(heap, retained[j], last.card) = {0}

\* C8: with bucket 0 = {X}, bucket 1 = {Y}, buckets 2..4 empty (bucket 5
\* possibly holding a retired card), practice returns exactly {X} on day
\* 0, exactly {X, Y} on day 1 and exactly {X} on day 2.
C8_Scenario ==
  (/\ last.op = "practice"
   /\ Len(dense) >= 2
   /\ heap[dense[1]] = {"X"}
   /\ heap[dense[2]] = {"Y"}
   /\ \A i \in 3..Len(dense) : i <= 5 => heap[dense[i]] = {})
  => /\ (last.day = 0 => result = {"X"})
     /\ (last.day = 1 => result = {"X", "Y"})
     /\ (last.day = 2 => result = {"X"})

\* C9: toBucketSets returns a sequence of length (highest key) + 1, or the
\* empty sequence for a map without keys; index i holds exactly the cards
\* of bucket i and is empty when the map has no entry for i, so the
\* non-empty entries read back are the map's non-empty buckets.
C9_DenseShape ==
  last.op = "toBucketSets" =>
    LET m == retained[last.arg]
        keys == MapKeys(m)
        d == DenseContent(heap, dense)
    IN /\ Len(d) = (IF keys = {} THEN 0
                    ELSE (CHOOSE k \in keys : \A j \in keys : j <= k) + 1)
       /\ \A i \in 0..(Len(d) - 1) : d[i + 1] = CardsIn(heap, m, i)
       /\ {<<i - 1, d[i]>> : i \in {j \in 1..Len(d) : d[j] # {}}}
            = {<<k, CardsIn(heap, m, k)>> :
                 k \in {j \in keys : CardsIn(heap, m, j) # {}}}

C9_Witness ==
  /\ last.op = "toBucketSets"
  /\ Len(dense) = 6
  /\ ~MapHas(retained[last.arg], 2)
  /\ heap[dense[3]] = {}
  /\ heap[dense[1]] = {"X"}
  /\ heap[dense[6]] = {"Y"}

\* C10: the array returned by toBucketSets shares no Set with any retained
\* map, and every update call made after the conversion (on the converted
\* map itself or on a later result that shares its sets) leaves every set
\* of the array unchanged.
C10_DenseIndependent ==
  [][/\ \A i \in 1..Len(dense') : \A j \in 1..Len(retained') :
          dense'[i] \notin MapRefs(retained'[j])
     /\ StepIsUpdate =>
          DenseContent(heap', dense') = DenseContent(heap, dense)]_vars

C10_Witness ==
  /\ last.op = "update"
  /\ \E k \in 0..(Len(dense) - 1) :
       /\ last.card \in heap[dense[k + 1]]
       /\ MapHas(retained[last.arg], k)
       /\ \A j \in 1..Len(retained) : last.card \notin CardsIn(heap, retained[j], k)

\* C11: getBucketRange returns undefined iff the sequence is empty or every
\* set in it is empty; otherwise minBucket is the smallest index whose set
\* is non-empty and maxBucket the largest, so minBucket <= maxBucket and
\* both indices hold non-empty sets.
C11_BucketRange ==
  last.op = "getBucketRange" =>
    LET d == DenseContent(heap, dense)
        occupied == {i \in 0..(Len(d) - 1) : d[i + 1] # {}}
    IN /\ result.defined <=> occupied # {}
       /\ result.defined =>
            /\ result.minBucket \in occupied
            /\ result.maxBucket \in occupied
            /\ \A i \in occupied : result.minBucket <= i /\ i <= result.maxBucket
            /\ result.minBucket <= result.maxBucket

C11_Witness ==
  /\ last.op = "getBucketRange"
  /\ Len(dense) = 6
  /\ result.defined
  /\ result.minBucket = 1
  /\ result.maxBucket = 4
  /\ heap[dense[1]] = {} /\ heap[dense[3]] = {} /\ heap[dense[6]] = {}

\* C15: update changes the bucket of at most the card it is given: every
\* other card is in the same bucket in the result as in the input, and
\* every bucket other than the card's source and target has the same set
\* content in the result as in the input.
C15_OtherCardsKept ==
  [][StepIsUpdate =>
       LET card == last'.card
           source == BucketsOf(heap, StepInput, card)
           target == BucketsOf(heap', StepResult, card)
       IN /\ \A o \in Cards \ {card} :
               BucketsOf(heap', StepResult, o) = BucketsOf(heap, StepInput, o)
          /\ \A k \in 0..5 :
               /\ CardsIn(heap', StepResult, k) \ {card}
                    = CardsIn(heap, StepInput, k) \ {card}
               /\ k \notin (source \cup target) =>
                    /\ MapHas(StepResult, k) <=> MapHas(StepInput, k)
                    /\ CardsIn(heap', StepResult, k) = CardsIn(heap, StepInput, k)]_vars

C15_Witness ==
  /\ last.op = "update"
  /\ last.card = "X"
  /\ last.difficulty = "Easy"
  /\ BucketsOf(heap, Latest, "X") = {3}
  /\ BucketsOf(heap, Latest, "Y") = {2}
  /\ ~MapHas(retained[last.arg], 3)

C17_BucketRange ==
  \A j \in 1..Len(retained) : MapKeys(retained[j]) \subseteq 0..5

C17_Witness ==
  /\ last.op = "update"
  /\ last.difficulty = "Easy"
  /\ Len(retained) = MaxMaps
  /\ BucketsOf(heap, Latest, last.card) = {5}
  /\ BucketsOf(heap, retained[1], last.card) = {5}
  /\ 0 \in MapKeys(Latest)

\* the bucket of a card in the current assignment, and the cards it holds
PlacedCards == {c \in Cards : BucketsOf(heap, Latest, c) # {}}
BucketOfCard(c) == CHOOSE b \in BucketsOf(heap, Latest, c) : TRUE

RECURSIVE SumBuckets(_)
SumBuckets(S) ==
  IF S = {} THEN 0
  ELSE LET c == CHOOSE x \in S : TRUE
       IN BucketOfCard(c) + SumBuckets(S \ {c})

\* C12: for every assignment with bucket numbers in 0..5, also after any
\* sequence of update calls, computeProgress returns an integer in
\* [0, 100]; exactly 0 when the assignment holds no cards (no entries, or
\* only empty sets) and exactly 100 when every card is in bucket 5.
C12_ProgressBounds ==
  last.op = "computeProgress" =>
    /\ result.sparse \in 0..100
    /\ result.dense \in 0..100
    /\ PlacedCards = {} => result.sparse = 0 /\ result.dense = 0
    /\ (PlacedCards # {} /\ \A c \in PlacedCards : BucketsOf(heap, Latest, c) = {5})
         => result.sparse = 100 /\ result.dense = 100

C12_Witness ==
  /\ last.op = "computeProgress"
  /\ Len(retained) = MaxMaps
  /\ PlacedCards = Cards
  /\ \A c \in Cards : BucketsOf(heap, Latest, c) = {5}
  /\ Len(Latest) > Len(retained[1])
  /\ result.sparse = 100

\* C18: computeProgress gives the same result for a sparse assignment and
\* for its dense encoding, for every history, and that result is
\* round(sum of count x bucket x 20 / total card count), 0 for zero cards;
\* {0:[p], 2:[q], 5:[r]} gives 47 and three cards in bucket 3 give 60.
C18_ProgressFormula ==
  last.op = "computeProgress" =>
    LET total == Cardinality(PlacedCards)
        sum == 20 * SumBuckets(PlacedCards)
        r == result.sparse
    IN /\ result.dense = result.sparse
       /\ total = 0 => r = 0
       /\ total > 0 => (2 * total * r <= 2 * sum + total
                          /\ 2 * sum + total < 2 * total * (r + 1))
       /\ (total = 3 /\ {BucketOfCard(c) : c \in PlacedCards} = {0, 2, 5}) => r = 47
       /\ (total = 3 /\ {BucketOfCard(c) : c \in PlacedCards} = {3}) => r = 60

C18_Witness ==
  /\ last.op = "computeProgress"
  /\ BucketsOf(heap, Latest, "X") = {0}
  /\ BucketsOf(heap, Latest, "Y") = {2}
  /\ BucketsOf(heap, Latest, "R") = {5}
  /\ result.sparse = 47
  /\ result.dense = 47

\* C20: computeProgress of update(sparse, card, Easy) is at least
\* computeProgress of the assignment before the call, and that of
\* update(sparse, card, Hard) and update(sparse, card, Wrong) is at most
\* it; so over a sequence of Easy updates the progress never decreases.
C20_ProgressMonotone ==
  [][StepIsUpdate =>
       LET before == computeProgress(MapEntries(heap, StepInput), <<>>)
           after == computeProgress(MapEntries(heap', StepResult), <<>>)
       IN /\ last'.difficulty = "Easy" => after >= before
          /\ last'.difficulty \in {"Hard", "Wrong"} => after <= before]_vars

C20_Witness ==
  /\ last.op = "update"
  /\ last.difficulty = "Easy"
  /\ last.card = "Y"
  /\ Len(retained) = MaxMaps
  /\ BucketsOf(heap, Latest, "X") = {0}
  /\ BucketsOf(heap, Latest, "Y") = {2}
  /\ BucketsOf(heap, Latest, "R") = {5}
  /\ computeProgress(MapEntries(heap, Latest), <<>>) = 47

\* C13: for every prompt that is not blank, getHint returns a string of at
\* least 3 characters, also for prompts shorter than 3 characters such as
\* "Hi".
C13_HintMinLength ==
  (last.op = "getHint" /\ \E i \in 1..Len(front) : front[i] \notin {" ", "\t", "\n"})
    => Len(result) >= 3

\* C14: getHint returns the first complete words of the prompt verbatim:
\* "Capital of" for "Capital of France?", "NAME the" for "NAME the
\* elements" and "What's your" for "What's your name?".
C14_FirstWords ==
  last.op = "getHint" =>
    /\ front = CapitalOfFrance => result = SubSeq(CapitalOfFrance, 1, 10)
    /\ front = NameTheElements => result = SubSeq(NameTheElements, 1, 8)
    /\ front = WhatsYourName => result = SubSeq(WhatsYourName, 1, 11)

====
